---- MODULE Spec2Model ----
(***************************************************************************)
(* Model of the time tracker: the category aggregation, the pie layout     *)
(* with its hit tester, and the timer/storage handlers of                  *)
(* src/app/time-tracker/time-tracker-client.tsx.                           *)
(*                                                                         *)
(* JavaScript numbers are IEEE-754 binary64.  The layout adds and          *)
(* multiplies angles, so the model carries real binary64 values: a         *)
(* 53-bit significand held as a natural number in limbs of 15 bits         *)
(* (little-endian), a binary exponent and a sign, with every operation     *)
(* rounded to nearest, ties to even.  Subnormals, infinities and the sign  *)
(* of zero are not modelled: the angles and percentages of a pie stay      *)
(* between 1e-9 and 1e3 in magnitude and no code path here looks at the    *)
(* sign of a zero.                                                         *)
(***************************************************************************)
EXTENDS Integers, Sequences, FiniteSets, TLC

(***************************************************************************)
(* Natural numbers of any size: little-endian limbs, no leading zero limb. *)
(***************************************************************************)
LimbBits == 3 * 5
Base == 2 ^ LimbBits

RECURSIVE BNorm(_)
BNorm(a) ==
  IF a = <<>> THEN a
  ELSE IF a[Len(a)] = 0 THEN BNorm(SubSeq(a, 1, Len(a) - 1)) ELSE a

RECURSIVE BFromInt(_)
BFromInt(n) == IF n = 0 THEN <<>> ELSE <<n % Base>> \o BFromInt(n \div Base)

RECURSIVE BToInt(_)
BToInt(a) == IF a = <<>> THEN 0 ELSE Head(a) + Base * BToInt(Tail(a))

RECURSIVE BAddC(_, _, _)
BAddC(a, b, c) ==
  IF a = <<>> /\ b = <<>> THEN (IF c = 0 THEN <<>> ELSE <<c>>)
  ELSE LET x == IF a = <<>> THEN 0 ELSE Head(a)
           y == IF b = <<>> THEN 0 ELSE Head(b)
           s == x + y + c
       IN  <<s % Base>> \o BAddC(IF a = <<>> THEN a ELSE Tail(a),
                                 IF b = <<>> THEN b ELSE Tail(b),
                                 s \div Base)

BAdd(a, b) == BAddC(a, b, 0)

RECURSIVE BSubB(_, _, _)
BSubB(a, b, br) ==
  IF a = <<>> THEN <<>>
  ELSE LET y == IF b = <<>> THEN 0 ELSE Head(b)
           d == Head(a) - y - br
       IN  <<d % Base>> \o BSubB(Tail(a),
                                 IF b = <<>> THEN b ELSE Tail(b),
                                 IF d < 0 THEN 1 ELSE 0)

\* a - b for a >= b
BSub(a, b) == BNorm(BSubB(a, b, 0))

RECURSIVE BCmpAt(_, _, _)
BCmpAt(a, b, i) ==
  IF i = 0 THEN 0
  ELSE IF a[i] < b[i] THEN -1
  ELSE IF a[i] > b[i] THEN 1
  ELSE BCmpAt(a, b, i - 1)

\* -1, 0, 1 as a < b, a = b, a > b
BCmp(a, b) ==
  IF Len(a) < Len(b) THEN -1
  ELSE IF Len(a) > Len(b) THEN 1
  ELSE BCmpAt(a, b, Len(a))

RECURSIVE BMulSmallC(_, _, _)
BMulSmallC(a, k, c) ==
  IF a = <<>> THEN (IF c = 0 THEN <<>> ELSE <<c>>)
  ELSE LET p == Head(a) * k + c
       IN  <<p % Base>> \o BMulSmallC(Tail(a), k, p \div Base)

\* a * k for 0 <= k < Base
BMulSmall(a, k) == BNorm(BMulSmallC(a, k, 0))

BShlLimbs(a, n) == IF a = <<>> THEN a ELSE [i \in 1..n |-> 0] \o a

RECURSIVE BMulAt(_, _, _)
BMulAt(a, b, i) ==
  IF i > Len(b) THEN <<>>
  ELSE BAdd(BShlLimbs(BMulSmall(a, b[i]), i - 1), BMulAt(a, b, i + 1))

BMul(a, b) == BMulAt(a, b, 1)

\* a * 2^k
BShl(a, k) == BShlLimbs(BMulSmall(a, 2 ^ (k % LimbBits)), k \div LimbBits)

RECURSIVE BDivTop(_, _, _)
BDivTop(a, d, r) ==
  IF a = <<>> THEN [q |-> <<>>, r |-> r]
  ELSE LET n == Len(a)
           cur == r * Base + a[n]
           lower == BDivTop(SubSeq(a, 1, n - 1), d, cur % d)
       IN  [q |-> Append(lower.q, cur \div d), r |-> lower.r]

\* quotient and remainder of a by d, 0 < d <= Base
BDivSmall(a, d) ==
  LET res == BDivTop(a, d, 0) IN [q |-> BNorm(res.q), r |-> res.r]

\* floor(a / 2^k)
BShr(a, k) ==
  LET drop == k \div LimbBits
  IN  IF drop >= Len(a) THEN <<>>
      ELSE BDivSmall(SubSeq(a, drop + 1, Len(a)), 2 ^ (k % LimbBits)).q

RECURSIVE BitLenSmall(_)
BitLenSmall(n) == IF n = 0 THEN 0 ELSE 1 + BitLenSmall(n \div 2)

BBitLen(a) ==
  IF a = <<>> THEN 0 ELSE LimbBits * (Len(a) - 1) + BitLenSmall(a[Len(a)])

(***************************************************************************)
(* binary64 values: NaN, zero, or (-1)^neg * m * 2^e with 2^52 <= m < 2^53.*)
(***************************************************************************)
MantBits == 53

FNaN == [k |-> "nan", neg |-> FALSE, m |-> <<>>, e |-> 0]
FZero == [k |-> "zero", neg |-> FALSE, m |-> <<>>, e |-> 0]

IsNaN(x) == x.k = "nan"

\* n * 2^e (plus a positive amount below one unit of n when sticky) rounded
\* to nearest, ties to even
FRound(neg, n, e, sticky) ==
  IF n = <<>> THEN FZero
  ELSE LET L == BBitLen(n) IN
    IF L <= MantBits
    THEN [k |-> "num", neg |-> neg, m |-> BShl(n, MantBits - L), e |-> e - (MantBits - L)]
    ELSE LET sh == L - MantBits
             q == BShr(n, sh)
             rem == BSub(n, BShl(q, sh))
             c == BCmp(rem, BShl(<<1>>, sh - 1))
             up == c > 0 \/ (c = 0 /\ (sticky \/ q[1] % 2 = 1))
             q2 == IF up THEN BAdd(q, <<1>>) ELSE q
         IN  IF BBitLen(q2) > MantBits
             THEN [k |-> "num", neg |-> neg, m |-> BShr(q2, 1), e |-> e + sh + 1]
             ELSE [k |-> "num", neg |-> neg, m |-> q2, e |-> e + sh]

\* the number holding the integer n
FFromInt(n) ==
  IF n < 0 THEN FRound(TRUE, BFromInt(-n), 0, FALSE)
  ELSE FRound(FALSE, BFromInt(n), 0, FALSE)

FNeg(x) == IF x.k = "num" THEN [x EXCEPT !.neg = ~x.neg] ELSE x

\* a / b for integers 0 <= a, 0 <= b <= Base held in numbers; 0 / 0 is NaN
\* (a positive numerator over zero does not occur: the divisor is the sum
\* of non-negative seconds that include the numerator)
FDivInt(a, b) ==
  IF b = 0 THEN FNaN
  ELSE IF a = 0 THEN FZero
  ELSE LET d == BDivSmall(BShl(BFromInt(a), 70), b)
       IN  FRound(FALSE, d.q, -70, d.r # 0)

FMul(x, y) ==
  IF IsNaN(x) \/ IsNaN(y) THEN FNaN
  ELSE IF x.k = "zero" \/ y.k = "zero" THEN FZero
  ELSE FRound(x.neg # y.neg, BMul(x.m, y.m), x.e + y.e, FALSE)

\* x / 2 and x * 2 are exact
FHalf(x) == IF x.k = "num" THEN [x EXCEPT !.e = x.e - 1] ELSE x
FDouble(x) == IF x.k = "num" THEN [x EXCEPT !.e = x.e + 1] ELSE x

FAdd(x, y) ==
  IF IsNaN(x) \/ IsNaN(y) THEN FNaN
  ELSE IF x.k = "zero" THEN y
  ELSE IF y.k = "zero" THEN x
  ELSE LET e == IF x.e < y.e THEN x.e ELSE y.e
           X == BShl(x.m, x.e - e)
           Y == BShl(y.m, y.e - e)
           c == BCmp(X, Y)
       IN  IF x.neg = y.neg THEN FRound(x.neg, BAdd(X, Y), e, FALSE)
           ELSE IF c = 0 THEN FZero
           ELSE IF c > 0 THEN FRound(x.neg, BSub(X, Y), e, FALSE)
           ELSE FRound(y.neg, BSub(Y, X), e, FALSE)

FSign(x) == IF x.k = "zero" THEN 0 ELSE IF x.neg THEN -1 ELSE 1

\* -1, 0, 1 for numbers that are not NaN
FCmp(x, y) ==
  IF FSign(x) # FSign(y) THEN (IF FSign(x) < FSign(y) THEN -1 ELSE 1)
  ELSE IF FSign(x) = 0 THEN 0
  ELSE LET mag == IF x.e # y.e THEN (IF x.e < y.e THEN -1 ELSE 1)
                  ELSE BCmp(x.m, y.m)
       IN  FSign(x) * mag

\* JS comparisons: false whenever an operand is NaN
FLt(x, y) == ~IsNaN(x) /\ ~IsNaN(y) /\ FCmp(x, y) < 0
FLe(x, y) == ~IsNaN(x) /\ ~IsNaN(y) /\ FCmp(x, y) <= 0
FGt(x, y) == ~IsNaN(x) /\ ~IsNaN(y) /\ FCmp(x, y) > 0
FGe(x, y) == ~IsNaN(x) /\ ~IsNaN(y) /\ FCmp(x, y) >= 0

\* Math.PI = 0x1921FB54442D18 * 2^-51
MathPI == [k |-> "num", neg |-> FALSE, m |-> <<11544, 10376, 2029, 201>>, e |-> -51]

\* Number.prototype.toFixed(1) of x >= 0: the integer n with n/10 - x
\* closest to zero, the larger n on a tie, printed with one decimal
ToFixed1Tenths(x) ==
  IF x.k = "zero" THEN 0
  ELSE LET N == BMulSmall(x.m, 10)
       IN  IF x.e >= 0 THEN BToInt(BShl(N, x.e))
           ELSE BToInt(BShr(BAdd(N, BShl(<<1>>, (-x.e) - 1)), -x.e))

toFixed1(x) ==
  IF IsNaN(x) THEN "NaN"
  ELSE LET n == ToFixed1Tenths(x)
       IN  ToString(n \div 10) \o "." \o ToString(n % 10)


(***************************************************************************)
(* Text.  A string is a sequence of one-character strings, so that         *)
(* toLowerCase and trim act on its characters.                             *)
(***************************************************************************)
UpperChars == <<"A", "B", "C", "D", "E", "F", "G", "H", "I", "J", "K", "L", "M",
                "N", "O", "P", "Q", "R", "S", "T", "U", "V", "W", "X", "Y", "Z">>
LowerChars == <<"a", "b", "c", "d", "e", "f", "g", "h", "i", "j", "k", "l", "m",
                "n", "o", "p", "q", "r", "s", "t", "u", "v", "w", "x", "y", "z">>

LowerChar(c) ==
  IF \E i \in 1..Len(UpperChars) : UpperChars[i] = c
  THEN LowerChars[CHOOSE i \in 1..Len(UpperChars) : UpperChars[i] = c]
  ELSE c

\* String.prototype.toLowerCase
toLowerCase(s) == [i \in 1..Len(s) |-> LowerChar(s[i])]

(***************************************************************************)
(* formatTime.  Texts are sequences of one-character strings.              *)
(***************************************************************************)
DigitChars == <<"0", "1", "2", "3", "4", "5", "6", "7", "8", "9">>

\* String(n) for a non-negative integer
RECURSIVE NumberToString(_)
NumberToString(n) ==
  IF n < 10 THEN <<DigitChars[n + 1]>>
  ELSE Append(NumberToString(n \div 10), DigitChars[(n % 10) + 1])

\* String.prototype.padStart(targetLength, "0")
RECURSIVE padStart(_, _)
padStart(text, targetLength) ==
  IF Len(text) >= targetLength THEN text ELSE padStart(<<"0">> \o text, targetLength)

\* minutes taken from the whole duration, hours not removed
MinutesOfAll(seconds) == seconds \div 60

\* Math.floor((seconds % 3600) / 60)
MinutesPart(seconds) == (seconds % 3600) \div 60

formatTime(seconds) ==
  LET hours == seconds \div 3600
      minutes == MinutesPart(seconds)
      secs == seconds % 60
  IN  padStart(NumberToString(hours), 2) \o <<":">>
        \o padStart(NumberToString(minutes), 2) \o <<":">>
        \o padStart(NumberToString(secs), 2)

(***************************************************************************)
(* The palette and the aggregation of entries by category.                 *)
(***************************************************************************)
colors == <<"#667eea", "#764ba2", "#f093fb", "#4facfe", "#43e97b", "#fa709a",
            "#fee140", "#30cfd0", "#a8edea", "#fed6e3", "#c471f5", "#12c2e9">>

\* a JS Map: a sequence of key/value pairs in insertion order
MapHas(m, key) == \E i \in 1..Len(m) : m[i].key = key

MapGet(m, key) == m[CHOOSE i \in 1..Len(m) : m[i].key = key].val

\* Map.prototype.set with the key moved to the end when it is already there
MapSetReinserting(m, key, val) ==
  SelectSeq(m, LAMBDA kv : kv.key # key) \o <<[key |-> key, val |-> val]>>

\* Map.prototype.set: a key already present keeps its position
MapSet(m, key, val) ==
  IF MapHas(m, key)
  THEN [i \in 1..Len(m) |-> IF m[i].key = key THEN [key |-> key, val |-> val] ELSE m[i]]
  ELSE Append(m, [key |-> key, val |-> val])

\* the bucket key of an entry taken without folding the case
CategoryKeyRaw(entry) == entry.category

\* const categoryLower = entry.category.toLowerCase()
CategoryKey(entry) == toLowerCase(entry.category)

\* a running total that is overwritten instead of added to
AccumulateOverwriting(m, key, seconds) == seconds

\* Map.prototype.get: <<>> for undefined, <<value>> for a value
MapLookup(m, key) == IF MapHas(m, key) THEN <<MapGet(m, key)>> ELSE <<>>

\* found || fallback for a number: the fallback when found is undefined or 0
FalsyOr(found, fallback) ==
  IF found = <<>> \/ found[1] = 0 THEN fallback ELSE found[1]

\* found ?? fallback: the fallback only when found is undefined
NullishOrValue(found, fallback) == IF found = <<>> THEN fallback ELSE found[1]

\* (aggregated.get(categoryLower) || 0) + entry.seconds
Accumulate(m, key, seconds) == FalsyOr(MapLookup(m, key), 0) + seconds

RECURSIVE AggregateFrom(_, _, _)
AggregateFrom(dbEntries, i, aggregated) ==
  IF i > Len(dbEntries) THEN aggregated
  ELSE LET entry == dbEntries[i]
           categoryLower == CategoryKey(entry)
       IN  AggregateFrom(dbEntries, i + 1,
             MapSet(aggregated, categoryLower,
                    Accumulate(aggregated, categoryLower, entry.seconds)))

\* a palette lookup that stops at the last colour instead of wrapping
ColorAtClamped(colorIndex) ==
  colors[(IF colorIndex < Len(colors) THEN colorIndex ELSE Len(colors) - 1) + 1]

\* colors[colorIndex % colors.length]
ColorAt(colorIndex) == colors[(colorIndex % Len(colors)) + 1]

aggregateEntries(dbEntries) ==
  LET aggregated == AggregateFrom(dbEntries, 1, <<>>)
  IN  [i \in 1..Len(aggregated) |->
         [name |-> aggregated[i].key,
          seconds |-> aggregated[i].val,
          color |-> ColorAt(i - 1)]]


(***************************************************************************)
(* The pie layout of renderPieChart.                                       *)
(***************************************************************************)
RECURSIVE SumSeconds(_)
SumSeconds(list) ==
  IF list = <<>> THEN 0 ELSE Head(list).seconds + SumSeconds(Tail(list))

\* -Math.PI / 2 and 2 * Math.PI
TopAngle == FHalf(FNeg(MathPI))
TwoPI == FDouble(MathPI)

\* (entry.seconds / total) * 2 * Math.PI
SliceAngleOf(seconds, total) == FMul(FDouble(FDivInt(seconds, total)), MathPI)

\* the durations whose angles and percentages are computed once and kept;
\* any other duration is computed where it is met
MaxTotal == 16

SliceAngles ==
  [total \in 0..MaxTotal |-> [seconds \in 0..MaxTotal |-> SliceAngleOf(seconds, total)]]

SliceAngle(seconds, total) ==
  IF total <= MaxTotal /\ seconds <= MaxTotal THEN SliceAngles[total][seconds]
  ELSE SliceAngleOf(seconds, total)

\* a percentage cut off after its first decimal instead of rounded
PercentageTruncated(seconds, total) ==
  IF total = 0 THEN "NaN"
  ELSE LET tenths == (1000 * seconds) \div total
       IN  ToString(tenths \div 10) \o "." \o ToString(tenths % 10)

\* ((entry.seconds / total) * 100).toFixed(1)
PercentageOf(seconds, total) == toFixed1(FMul(FDivInt(seconds, total), FFromInt(100)))

Percentages ==
  [total \in 0..MaxTotal |-> [seconds \in 0..MaxTotal |-> PercentageOf(seconds, total)]]

Percentage(seconds, total) ==
  IF total <= MaxTotal /\ seconds <= MaxTotal THEN Percentages[total][seconds]
  ELSE PercentageOf(seconds, total)

\* a layout whose first slice starts at angle 0 (three o'clock)
FirstAngleAtZero == FZero

\* let currentAngle = -Math.PI / 2
FirstAngle == TopAngle

RECURSIVE LayoutFrom(_, _, _, _, _)
LayoutFrom(list, i, total, currentAngle, newSlices) ==
  IF i > Len(list) THEN newSlices
  ELSE LET entry == list[i]
           sliceAngle == SliceAngle(entry.seconds, total)
       IN  LayoutFrom(list, i + 1, total, FAdd(currentAngle, sliceAngle),
             Append(newSlices,
                    [startAngle |-> currentAngle,
                     endAngle |-> FAdd(currentAngle, sliceAngle),
                     name |-> entry.name,
                     seconds |-> entry.seconds,
                     percentage |-> Percentage(entry.seconds, total)]))

\* what a call of renderPieChart leaves: the picture on the canvas and the
\* slices state (setSlices is reached only on the path that paints a pie)
renderPieChart(list, oldSlices) ==
  IF Len(list) = 0
  THEN [shown |-> "placeholder", slices |-> oldSlices]
  ELSE [shown |-> "pie",
        slices |-> LayoutFrom(list, 1, SumSeconds(list), FirstAngle, <<>>)]

(***************************************************************************)
(* The hit tester.  The canvas is square, ContainerWidth wide.  Math.atan2 *)
(* is given for the eight principal directions and the centre, where its   *)
(* value is 0, pi or an exact multiple of the number Math.PI / 4; the      *)
(* pointer positions of the model lie on these directions.                 *)
(***************************************************************************)
ContainerWidth == 500
Margin == 20

Atan2(dy, dx) ==
  IF dy = 0 THEN (IF dx >= 0 THEN FZero ELSE MathPI)
  ELSE LET quarter == FHalf(FHalf(MathPI))
           a == IF dx = 0 THEN FHalf(MathPI)
                ELSE IF dx > 0 THEN quarter
                ELSE FAdd(FHalf(MathPI), quarter)
       IN  IF dy > 0 THEN a ELSE FNeg(a)

SliceMatches(slice, angle) ==
  LET start == IF FLt(slice.startAngle, FZero) THEN FAdd(slice.startAngle, TwoPI)
               ELSE slice.startAngle
      end == IF FLt(slice.endAngle, FZero) THEN FAdd(slice.endAngle, TwoPI)
             ELSE slice.endAngle
  IN  IF FLt(end, start)
      THEN FGe(angle, start) \/ FLe(angle, end)
      ELSE FGe(angle, start) /\ FLe(angle, end)

RECURSIVE FirstMatch(_, _, _)
FirstMatch(list, i, angle) ==
  IF i > Len(list) THEN 0
  ELSE IF SliceMatches(list[i], angle) THEN i
  ELSE FirstMatch(list, i + 1, angle)

CenterX == ContainerWidth \div 2
CenterY == ContainerWidth \div 2
Radius == (IF CenterX < CenterY THEN CenterX ELSE CenterY) - Margin

\* distance > radius, with distance = Math.sqrt(dx * dx + dy * dy)
OutsidePie(dx, dy) == dx * dx + dy * dy > Radius * Radius

\* the hit slice as its index in the slices state, 0 for null; mouseX and
\* mouseY are relative to the canvas
getSliceAtPosition(list, mouseX, mouseY) ==
  IF Len(list) = 0 THEN 0
  ELSE LET dx == mouseX - CenterX
           dy == mouseY - CenterY
       IN  IF OutsidePie(dx, dy) THEN 0
           ELSE LET turned == FAdd(Atan2(dy, dx), FHalf(MathPI))
                    angle == IF FLt(turned, FZero) THEN FAdd(turned, TwoPI)
                             ELSE turned
                IN  FirstMatch(list, 1, angle)


\* ---- aggregateEntries of the read-only view ----

\* (aggregated.get(categoryLower) ?? 0) + entry.seconds
AccumulateReadOnly(m, key, seconds) == NullishOrValue(MapLookup(m, key), 0) + seconds

RECURSIVE AggregateFromReadOnly(_, _, _)
AggregateFromReadOnly(dbEntries, i, aggregated) ==
  IF i > Len(dbEntries) THEN aggregated
  ELSE LET entry == dbEntries[i]
           categoryLower == toLowerCase(entry.category)
       IN  AggregateFromReadOnly(dbEntries, i + 1,
             MapSet(aggregated, categoryLower,
                    AccumulateReadOnly(aggregated, categoryLower, entry.seconds)))

\* a palette lookup that always takes the fallback colour
ColorFallback(colorIndex) == "#667eea"

\* colors[colorIndex % colors.length] ?? "#667eea"
ColorAtReadOnly(colorIndex) ==
  LET index == (colorIndex % Len(colors)) + 1
  IN  NullishOrValue(IF index \in DOMAIN colors THEN <<colors[index]>> ELSE <<>>,
                     "#667eea")

aggregateEntriesReadOnly(dbEntries) ==
  LET aggregated == AggregateFromReadOnly(dbEntries, 1, <<>>)
  IN  [i \in 1..Len(aggregated) |->
         [name |-> aggregated[i].key,
          seconds |-> aggregated[i].val,
          color |-> ColorAtReadOnly(i - 1)]]

(***************************************************************************)
(* State of the interactive client and of the storage it talks to.         *)
(***************************************************************************)
VARIABLES
  db,              \* rows of time_entries, oldest first
  nextId,          \* the BIGSERIAL of time_entries
  issued,          \* how many storage calls the handlers have issued
  phase,           \* how far the component (or a function under test) has come
  allEntries,      \* useState<TimeEntry[]>
  entries,         \* useState<AggregatedEntry[]>
  slices,          \* useState<Slice[]>
  shown,           \* what the canvas shows: "blank", "placeholder" or "pie"
  pointer,         \* the last pointer position over the canvas
  hoverSlice,      \* index in slices of the slice the tooltip shows, 0 if hidden
  category,        \* useState("")
  isRunning,       \* useState(false)
  elapsedSeconds,  \* useState(0)
  clockText,       \* the timer display: formatTime(elapsedSeconds)
  intervalRef,     \* whether intervalRef.current holds a live interval
  liveIntervals,   \* how many intervals made by setInterval are not cleared
  runHalf,         \* half seconds of wall clock since the running timer's start
  pending,         \* storage calls in flight with their continuations
  lastAlert        \* the text the last step passed to alert(), "" if none

vars == <<db, nextId, issued, phase, allEntries, entries, slices, shown, pointer, hoverSlice,
          category, isRunning, elapsedSeconds, clockText, intervalRef, liveIntervals, runHalf, pending,
          lastAlert>>

chartVars == <<allEntries, entries, slices, shown>>
timerVars == <<category, isRunning, elapsedSeconds, clockText, intervalRef, liveIntervals, runHalf>>
storeVars == <<db, nextId, issued, pending>>

UserId == "u1"

OtherUserId == "u2"

Row(id, userId, cat, secs, color) ==
  [id |-> id, category |-> cat, seconds |-> secs, user_id |-> userId, color |-> color]

Entry(id, cat, secs, color) == Row(id, UserId, cat, secs, color)

(***************************************************************************)
(* Pointer positions, relative to the canvas: the centre, and points on    *)
(* the eight principal directions inside, on and outside the pie's rim.    *)
(***************************************************************************)
PointerOffsets == {-240, -115, 0, 115, 230}

Pointers ==
  {<<CenterX + dx, CenterY + dy>> : <<dx, dy>> \in
     {o \in PointerOffsets \X PointerOffsets :
        o[1] = 0 \/ o[2] = 0 \/ o[1] = o[2] \/ o[1] = -o[2]}}

(***************************************************************************)
(* The steps of the component that the chart properties are about.         *)
(***************************************************************************)
\* setEntries(aggregateEntries(...)) applied to the entry list
Aggregate ==
  /\ phase = "input"
  /\ entries' = aggregateEntries(allEntries)
  /\ phase' = "aggregated"
  /\ UNCHANGED <<allEntries, slices, shown, pointer, hoverSlice, timerVars, storeVars, lastAlert>>

\* the effect on [entries]: renderPieChart()
Render ==
  /\ phase = "aggregated"
  /\ LET r == renderPieChart(entries, slices)
     IN  shown' = r.shown /\ slices' = r.slices
  /\ phase' = "rendered"
  /\ UNCHANGED <<allEntries, entries, pointer, hoverSlice, timerVars, storeVars, lastAlert>>

\* handleMouseMove: the tooltip shows the slice under the pointer, if any
MouseMove(p) ==
  /\ phase \in {"rendered", "mounted"}
  /\ pointer' = p
  /\ hoverSlice' = getSliceAtPosition(slices, p[1], p[2])
  /\ UNCHANGED <<phase, chartVars, timerVars, storeVars, lastAlert>>

(***************************************************************************)
(* Inputs of the function-level specifications.                            *)
(***************************************************************************)
MaxAggEntries == 3
AggMaxSec == 2
AggCategories == {<<"C", "o", "d", "e">>, <<"c", "o", "d", "e">>,
                  <<"W", "o", "r", "k">>, <<"a", "r", "t">>}

AggInput(n, f) == [i \in 1..n |-> Entry(i, f[i][1], f[i][2], colors[1])]

MaxPaletteEntries == 13
EntryColorTags == {colors[12], "#000000"}
FreshName(k) == <<LowerChars[k]>>
RepeatedName == <<"A">>

PaletteInput(n, fresh, tag) ==
  [i \in 1..n |-> Entry(i, IF fresh[i] THEN FreshName(i) ELSE RepeatedName, 1, tag)]

PieMaxCats == 3
PieSeconds == {0, 1, 2, 4}

PieInput(n, secs) == [i \in 1..n |-> Entry(i, FreshName(i), secs[i], colors[1])]

\* the component before its first commit
ClientConstructed ==
  /\ slices = <<>> /\ shown = "blank"
  /\ pointer = <<CenterX, CenterY>> /\ hoverSlice = 0
  /\ category = <<>> /\ isRunning = FALSE /\ elapsedSeconds = 0
  /\ clockText = formatTime(0)
  /\ intervalRef = FALSE /\ liveIntervals = 0 /\ runHalf = 0
  /\ pending = <<>> /\ issued = 0 /\ lastAlert = ""

Constructed ==
  /\ db = <<>> /\ nextId = 1
  /\ ClientConstructed

InitAgg ==
  /\ Constructed
  /\ phase = "input"
  /\ \E n \in 0..MaxAggEntries :
       \E f \in [1..n -> AggCategories \X (0..AggMaxSec)] :
         allEntries = AggInput(n, f)
  /\ entries = <<>>

SpecAgg == InitAgg /\ [][Aggregate]_vars

InitPalette ==
  /\ Constructed
  /\ phase = "input"
  /\ \E n \in 0..MaxPaletteEntries :
       \E fresh \in [1..n -> BOOLEAN], tag \in EntryColorTags :
         allEntries = PaletteInput(n, fresh, tag)
  /\ entries = <<>>

SpecPalette == InitPalette /\ [][Aggregate]_vars

\* setAggregatedEntries(aggregateEntries(entries)) of the read-only view
AggregateReadOnly ==
  /\ phase = "input"
  /\ entries' = aggregateEntriesReadOnly(allEntries)
  /\ phase' = "aggregated"
  /\ UNCHANGED <<allEntries, slices, shown, pointer, hoverSlice, timerVars, storeVars, lastAlert>>

\* entry lists with repeated categories and with more categories than colours
InitAggReadOnly == InitAgg \/ InitPalette

SpecAggReadOnly == InitAggReadOnly /\ [][AggregateReadOnly]_vars

InitPie ==
  /\ Constructed
  /\ phase = "aggregated"
  /\ \E n \in 0..PieMaxCats :
       \E secs \in [1..n -> PieSeconds] :
         allEntries = PieInput(n, secs)
  /\ entries = aggregateEntries(allEntries)

NextPie == Render \/ \E p \in Pointers : MouseMove(p)

SpecPie == InitPie /\ [][NextPie]_vars

FmtMaxLow == 119
FmtHours == {0, 1, 9, 10, 99, 100, 101}
FmtSeconds ==
  (0..FmtMaxLow)
    \cup {h * 3600 + m * 60 + sec : h \in FmtHours, m \in {0, 1, 59}, sec \in {0, 1, 59}}

\* setElapsedSeconds(seconds) and the render of the timer display
ShowClock(seconds) ==
  /\ phase = "input"
  /\ elapsedSeconds' = seconds
  /\ clockText' = formatTime(seconds)
  /\ phase' = "formatted"
  /\ UNCHANGED <<chartVars, pointer, hoverSlice, category, isRunning, intervalRef,
                 liveIntervals, runHalf, storeVars, lastAlert>>

InitFmt ==
  /\ Constructed
  /\ phase = "input"
  /\ allEntries = <<>>
  /\ entries = <<>>

SpecFmt == InitFmt /\ [][\E seconds \in FmtSeconds : ShowClock(seconds)]_vars

(***************************************************************************)
(* The interactive client: text input, timer, storage calls.               *)
(***************************************************************************)
WhitespaceChars == {" ", "\t"}

RECURSIVE TrimStart(_)
TrimStart(s) ==
  IF s # <<>> /\ Head(s) \in WhitespaceChars THEN TrimStart(Tail(s)) ELSE s

RECURSIVE TrimEnd(_)
TrimEnd(s) ==
  IF s # <<>> /\ s[Len(s)] \in WhitespaceChars
  THEN TrimEnd(SubSeq(s, 1, Len(s) - 1)) ELSE s

\* String.prototype.trim
trim(s) == TrimEnd(TrimStart(s))

RECURSIVE Reverse(_)
Reverse(s) == IF s = <<>> THEN s ELSE Append(Reverse(Tail(s)), Head(s))

\* a select that returns the rows of every user
SelectEvery(rows, userId) == Reverse(rows)

\* .select("*").eq("user_id", userId).order("created_at", { ascending: false })
SelectOwn(rows, userId) == Reverse(SelectSeq(rows, LAMBDA r : r.user_id = userId))

\* a delete that removes every row of the user
DeleteOwnRows(rows, id, userId) == SelectSeq(rows, LAMBDA r : r.user_id # userId)

\* .delete().eq("id", id).eq("user_id", userId)
DeleteRow(rows, id, userId) ==
  SelectSeq(rows, LAMBDA r : ~(r.id = id /\ r.user_id = userId))

\* the state the chart is left in once setAllEntries/setEntries have been
\* committed and the effect on [entries] has run renderPieChart
ShowEntries(list) ==
  LET agg == aggregateEntries(list)
      r == renderPieChart(agg, slices)
  IN  /\ allEntries' = list
      /\ entries' = agg
      /\ shown' = r.shown
      /\ slices' = r.slices

MaxCalls == 2
MaxRunHalf == 2
IntervalMs == 1000
MsPerSecond == 1000
\* the grain of the modelled clock
ClockStepMs == IntervalMs \div 2
CategoryTexts == {<<" ">>, <<"A", " ">>}
RandomIndexes == {11}

\* a storage call in flight: what it carries, how far it has come, and the
\* rows of its select once storage has answered
Call(op, stage, cat, secs, color, id) ==
  [op |-> op, stage |-> stage, category |-> cat, seconds |-> secs, color |-> color,
   id |-> id, rows |-> <<>>]

\* rows that storage may hold when the page is opened: one of the session's
\* user and one of another user
SeedRows == <<Row(1, UserId, <<"b">>, 1, colors[1]), Row(2, OtherUserId, <<"b">>, 2, colors[2])>>
FirstFreeId == Len(SeedRows) + 1

\* the call a running timer will issue when it is stopped
CallsOwed == IF isRunning THEN 1 ELSE 0

Without(seq, i) == SubSeq(seq, 1, i - 1) \o SubSeq(seq, i + 1, Len(seq))

\* the first commit: the mount effect, then the effect on [entries], first
\* with the empty list of the first render and then with the aggregation
Mount ==
  /\ phase = "constructed"
  /\ phase' = "mounted"
  /\ ShowEntries(SelectOwn(db, UserId))
  /\ lastAlert' = ""
  /\ UNCHANGED <<pointer, hoverSlice, timerVars, storeVars>>

\* onChange of the input, which is disabled while the timer runs
SetCategory(text) ==
  /\ phase = "mounted"
  /\ ~isRunning
  /\ category' = text
  /\ lastAlert' = ""
  /\ UNCHANGED <<phase, chartVars, pointer, hoverSlice, isRunning, elapsedSeconds, clockText,
                 intervalRef, liveIntervals, runHalf, storeVars>>

\* a check that takes only the empty text for blank
IsBlankUntrimmed(text) == text = <<>>

\* !category.trim()
IsBlank(text) == trim(text) = <<>>

\* startTimer, from the Start button or the Enter key, both off while running
StartTimer ==
  /\ phase = "mounted"
  /\ ~isRunning
  /\ issued < MaxCalls
  /\ IF IsBlank(category)
     THEN /\ lastAlert' = "Please enter a task name!"
          /\ UNCHANGED <<isRunning, elapsedSeconds, clockText, intervalRef, liveIntervals, runHalf>>
     ELSE /\ elapsedSeconds' = 0
          /\ clockText' = formatTime(0)
          /\ isRunning' = TRUE
          /\ intervalRef' = TRUE
          /\ liveIntervals' = liveIntervals + 1
          /\ runHalf' = 0
          /\ lastAlert' = ""
  /\ UNCHANGED <<phase, chartVars, pointer, hoverSlice, category, storeVars>>

\* wall-clock time passing while an interval is live
AdvanceTime ==
  /\ liveIntervals > 0
  /\ runHalf < MaxRunHalf
  /\ runHalf' = runHalf + 1
  /\ lastAlert' = ""
  /\ UNCHANGED <<phase, chartVars, pointer, hoverSlice, category, isRunning,
                 elapsedSeconds, clockText, intervalRef, liveIntervals, storeVars>>

\* the interval callback, not before 1000 ms after the start
Tick ==
  /\ liveIntervals > 0
  /\ runHalf * ClockStepMs >= IntervalMs
  /\ elapsedSeconds' = (runHalf * ClockStepMs) \div MsPerSecond
  /\ clockText' = formatTime((runHalf * ClockStepMs) \div MsPerSecond)
  /\ lastAlert' = ""
  /\ UNCHANGED <<phase, chartVars, pointer, hoverSlice, category, isRunning,
                 intervalRef, liveIntervals, runHalf, storeVars>>

\* the category text sent as typed
InsertedCategoryRaw(text) == text

\* category: category.trim()
InsertedCategory(text) == trim(text)

\* a stopTimer that can also be invoked while no timer runs
StopTimerAnytime(randomIndex) ==
  /\ phase = "mounted"
  /\ issued + CallsOwed < MaxCalls \/ isRunning
  /\ liveIntervals' = (IF intervalRef THEN liveIntervals - 1 ELSE liveIntervals)
  /\ intervalRef' = FALSE
  /\ isRunning' = FALSE
  /\ pending' = Append(pending, Call("stop", "insert", InsertedCategory(category), elapsedSeconds,
                                     colors[randomIndex + 1], 0))
  /\ UNCHANGED <<phase, chartVars, pointer, hoverSlice, category, elapsedSeconds, clockText,
                 runHalf, db, nextId>>
  /\ issued' = issued + 1
  /\ lastAlert' = ""

\* stopTimer up to its first await: the insert is sent
StopTimer(randomIndex) ==
  /\ phase = "mounted"
  /\ isRunning
  /\ liveIntervals' = (IF intervalRef THEN liveIntervals - 1 ELSE liveIntervals)
  /\ intervalRef' = FALSE
  /\ isRunning' = FALSE
  /\ pending' = Append(pending, Call("stop", "insert", InsertedCategory(category), elapsedSeconds,
                                     colors[randomIndex + 1], 0))
  /\ UNCHANGED <<phase, chartVars, pointer, hoverSlice, category, elapsedSeconds, clockText,
                 runHalf, db, nextId>>
  /\ issued' = issued + 1
  /\ lastAlert' = ""

\* a failed insert that alerts and goes on to the refetch
InsertFailsRefetching(i) ==
  /\ pending[i].stage = "insert"
  /\ lastAlert' = "Failed to save time entry"
  /\ pending' = [pending EXCEPT ![i].stage = "select"]
  /\ UNCHANGED <<phase, chartVars, pointer, hoverSlice, timerVars, db, nextId, issued>>

\* the insert fails: alert and return
InsertFails(i) ==
  /\ pending[i].stage = "insert"
  /\ lastAlert' = "Failed to save time entry"
  /\ pending' = Without(pending, i)
  /\ UNCHANGED <<phase, chartVars, pointer, hoverSlice, timerVars, db, nextId, issued>>

\* the insert succeeds: the row is stored and the select is sent
InsertSucceeds(i) ==
  /\ pending[i].stage = "insert"
  /\ db' = Append(db, Entry(nextId, pending[i].category, pending[i].seconds,
                            pending[i].color))
  /\ nextId' = nextId + 1
  /\ UNCHANGED issued
  /\ pending' = [pending EXCEPT ![i].stage = "select"]
  /\ lastAlert' = ""
  /\ UNCHANGED <<phase, chartVars, pointer, hoverSlice, timerVars>>

\* deleteEntry up to its first await, from the Delete button of a shown entry
DeleteEntry(id) ==
  /\ phase = "mounted"
  /\ \E j \in 1..Len(allEntries) : allEntries[j].id = id
  /\ issued + CallsOwed < MaxCalls
  /\ pending' = Append(pending, Call("delete", "delete", <<>>, 0, "", id))
  /\ issued' = issued + 1
  /\ lastAlert' = ""
  /\ UNCHANGED <<phase, chartVars, pointer, hoverSlice, timerVars, db, nextId>>

DeleteFails(i) ==
  /\ pending[i].stage = "delete"
  /\ lastAlert' = "Failed to delete time entry"
  /\ pending' = Without(pending, i)
  /\ UNCHANGED <<phase, chartVars, pointer, hoverSlice, timerVars, db, nextId, issued>>

DeleteSucceeds(i) ==
  /\ pending[i].stage = "delete"
  /\ db' = DeleteRow(db, pending[i].id, UserId)
  /\ pending' = [pending EXCEPT ![i].stage = "select"]
  /\ lastAlert' = ""
  /\ UNCHANGED <<phase, chartVars, pointer, hoverSlice, timerVars, nextId, issued>>

\* a continuation of stopTimer that leaves the category text as it is
ResetKeepingCategory(call) ==
  IF call.op = "stop"
  THEN /\ elapsedSeconds' = 0
       /\ clockText' = formatTime(0)
       /\ UNCHANGED <<category, isRunning, intervalRef, liveIntervals, runHalf>>
  ELSE UNCHANGED timerVars

\* what stopTimer does after its select, whatever the select returned
ResetAfterStop(call) ==
  IF call.op = "stop"
  THEN /\ category' = <<>>
       /\ elapsedSeconds' = 0
       /\ clockText' = formatTime(0)
       /\ UNCHANGED <<isRunning, intervalRef, liveIntervals, runHalf>>
  ELSE UNCHANGED timerVars

\* the select returns no data: the lists stay as they are
SelectFails(i) ==
  /\ pending[i].stage = "select"
  /\ IF phase = "unmounted" THEN UNCHANGED timerVars ELSE ResetAfterStop(pending[i])
  /\ pending' = Without(pending, i)
  /\ lastAlert' = ""
  /\ UNCHANGED <<phase, chartVars, pointer, hoverSlice, db, nextId, issued>>

\* storage answers the select with the owner's rows, newest first
SelectAnswered(i) ==
  /\ pending[i].stage = "select"
  /\ pending' = [pending EXCEPT ![i].stage = "response",
                                ![i].rows = SelectOwn(db, UserId)]
  /\ lastAlert' = ""
  /\ UNCHANGED <<phase, chartVars, pointer, hoverSlice, timerVars, db, nextId, issued>>

\* the answer of the select reaches the handler: if (updatedEntries) { ... }
SelectSucceeds(i) ==
  /\ pending[i].stage = "response"
  /\ IF phase = "unmounted"
     THEN UNCHANGED <<chartVars, timerVars>>
     ELSE ShowEntries(pending[i].rows) /\ ResetAfterStop(pending[i])
  /\ pending' = Without(pending, i)
  /\ lastAlert' = ""
  /\ UNCHANGED <<phase, pointer, hoverSlice, db, nextId, issued>>

\* a teardown whose cleanup leaves the interval alive
UnmountWithoutCleanup ==
  /\ phase = "mounted"
  /\ phase' = "unmounted"
  /\ lastAlert' = ""
  /\ UNCHANGED <<chartVars, pointer, hoverSlice, timerVars, storeVars>>

\* the component is taken off the page: the cleanup of the effect with no
\* dependencies clears the interval that intervalRef.current holds; state
\* updates that arrive later are dropped
Unmount ==
  /\ phase = "mounted"
  /\ phase' = "unmounted"
  /\ liveIntervals' = (IF intervalRef THEN liveIntervals - 1 ELSE liveIntervals)
  /\ lastAlert' = ""
  /\ UNCHANGED <<chartVars, pointer, hoverSlice, category, isRunning, elapsedSeconds,
                 clockText, intervalRef, runHalf, storeVars>>

Init ==
  /\ ClientConstructed
  /\ db \in {<<>>, SeedRows}
  /\ nextId = FirstFreeId
  /\ phase = "constructed"
  /\ allEntries = <<>>
  /\ entries = <<>>

Next ==
  \/ Mount
  \/ \E text \in CategoryTexts : SetCategory(text)
  \/ StartTimer
  \/ AdvanceTime
  \/ Tick
  \/ \E randomIndex \in RandomIndexes : StopTimer(randomIndex)
  \/ \E id \in 1..(nextId - 1) : DeleteEntry(id)
  \/ \E i \in 1..Len(pending) : InsertFails(i)
  \/ \E i \in 1..Len(pending) : InsertSucceeds(i)
  \/ \E i \in 1..Len(pending) : DeleteFails(i)
  \/ \E i \in 1..Len(pending) : DeleteSucceeds(i)
  \/ \E i \in 1..Len(pending) : SelectFails(i)
  \/ \E i \in 1..Len(pending) : SelectAnswered(i)
  \/ \E i \in 1..Len(pending) : SelectSucceeds(i)
  \/ Unmount

Spec == Init /\ [][Next]_vars

\* the behaviours in which no storage call returns an error
NextWithoutError ==
  \/ Mount
  \/ \E text \in CategoryTexts : SetCategory(text)
  \/ StartTimer
  \/ AdvanceTime
  \/ Tick
  \/ \E randomIndex \in RandomIndexes : StopTimer(randomIndex)
  \/ \E id \in 1..(nextId - 1) : DeleteEntry(id)
  \/ \E i \in 1..Len(pending) : InsertSucceeds(i)
  \/ \E i \in 1..Len(pending) : DeleteSucceeds(i)
  \/ \E i \in 1..Len(pending) : SelectAnswered(i)
  \/ \E i \in 1..Len(pending) : SelectSucceeds(i)
  \/ Unmount

SpecWithoutError == Init /\ [][NextWithoutError]_vars

\* ---- the client with a stop under way ----

\* the client over SeedRows after Mount, typing "A ", Start and Stop: the
\* insert of the stop is in flight; issued counts the calls from here on
InitAfterStop ==
  /\ db = SeedRows /\ nextId = FirstFreeId
  /\ phase = "mounted"
  /\ allEntries = SelectOwn(SeedRows, UserId)
  /\ entries = aggregateEntries(allEntries)
  /\ LET r == renderPieChart(entries, <<>>)
     IN  shown = r.shown /\ slices = r.slices
  /\ pointer = <<CenterX, CenterY>> /\ hoverSlice = 0
  /\ category = <<"A", " ">> /\ isRunning = FALSE /\ elapsedSeconds = 0
  /\ clockText = formatTime(0)
  /\ intervalRef = FALSE /\ liveIntervals = 0 /\ runHalf = 0
  /\ pending = <<Call("stop", "insert", InsertedCategory(<<"A", " ">>), 0,
                      colors[12], 0)>>
  /\ issued = 0 /\ lastAlert = ""

\* what the user and storage do while the stop completes: the text is
\* edited, entries are deleted, calls are answered without error
NextAfterStop ==
  \/ \E text \in CategoryTexts : SetCategory(text)
  \/ \E id \in 1..(nextId - 1) : DeleteEntry(id)
  \/ \E i \in 1..Len(pending) : InsertSucceeds(i)
  \/ \E i \in 1..Len(pending) : DeleteSucceeds(i)
  \/ \E i \in 1..Len(pending) : SelectAnswered(i)
  \/ \E i \in 1..Len(pending) : SelectSucceeds(i)

SpecAfterStop == InitAfterStop /\ [][NextAfterStop]_vars

\* ---- the second interactive client ----

\* useState<TimeEntry[]>(_initialEntries), useState<AggregatedEntry[]>([])
InitVariant ==
  /\ ClientConstructed
  /\ db \in {<<>>, SeedRows}
  /\ nextId = FirstFreeId
  /\ phase = "constructed"
  /\ allEntries = SelectOwn(db, UserId)
  /\ entries = <<>>

\* the first commit: there is no mount effect, only the effect on [entries]
MountVariant ==
  /\ phase = "constructed"
  /\ phase' = "mounted"
  /\ LET r == renderPieChart(entries, slices)
     IN  shown' = r.shown /\ slices' = r.slices
  /\ lastAlert' = ""
  /\ UNCHANGED <<allEntries, entries, pointer, hoverSlice, timerVars, storeVars>>

NextVariant ==
  \/ MountVariant
  \/ \E text \in CategoryTexts : SetCategory(text)
  \/ StartTimer
  \/ AdvanceTime
  \/ Tick
  \/ \E randomIndex \in RandomIndexes : StopTimer(randomIndex)
  \/ \E id \in 1..(nextId - 1) : DeleteEntry(id)
  \/ \E i \in 1..Len(pending) : InsertFails(i)
  \/ \E i \in 1..Len(pending) : InsertSucceeds(i)
  \/ \E i \in 1..Len(pending) : DeleteFails(i)
  \/ \E i \in 1..Len(pending) : DeleteSucceeds(i)
  \/ \E i \in 1..Len(pending) : SelectFails(i)
  \/ \E i \in 1..Len(pending) : SelectAnswered(i)
  \/ \E i \in 1..Len(pending) : SelectSucceeds(i)
  \/ Unmount

SpecVariant == InitVariant /\ [][NextVariant]_vars

\* a ?? b: b only when a is null or undefined; a comparison is a boolean
NullishOr(a, b) == IF a \in BOOLEAN THEN a ELSE b

\* the match condition of the variant: if (angle >= start ?? angle <= end)
SliceMatchesVariant(slice, angle) ==
  LET start == IF FLt(slice.startAngle, FZero) THEN FAdd(slice.startAngle, TwoPI)
               ELSE slice.startAngle
      end == IF FLt(slice.endAngle, FZero) THEN FAdd(slice.endAngle, TwoPI)
             ELSE slice.endAngle
  IN  IF FLt(end, start)
      THEN NullishOr(FGe(angle, start), FLe(angle, end))
      ELSE FGe(angle, start) /\ FLe(angle, end)

RECURSIVE FirstMatchVariant(_, _, _)
FirstMatchVariant(list, i, angle) ==
  IF i > Len(list) THEN 0
  ELSE IF SliceMatchesVariant(list[i], angle) THEN i
  ELSE FirstMatchVariant(list, i + 1, angle)

getSliceAtPositionVariant(list, mouseX, mouseY) ==
  IF Len(list) = 0 THEN 0
  ELSE LET dx == mouseX - CenterX
           dy == mouseY - CenterY
       IN  IF OutsidePie(dx, dy) THEN 0
           ELSE LET turned == FAdd(Atan2(dy, dx), FHalf(MathPI))
                    angle == IF FLt(turned, FZero) THEN FAdd(turned, TwoPI)
                             ELSE turned
                IN  FirstMatchVariant(list, 1, angle)

\* handleMouseMove of the variant
MouseMoveVariant(p) ==
  /\ phase \in {"rendered", "mounted"}
  /\ pointer' = p
  /\ hoverSlice' = getSliceAtPositionVariant(slices, p[1], p[2])
  /\ UNCHANGED <<phase, chartVars, timerVars, storeVars, lastAlert>>

NextPieVariant == Render \/ \E p \in Pointers : MouseMoveVariant(p)

SpecPieVariant == InitPie /\ [][NextPieVariant]_vars

\* ---- the public page ----

\* auth.uid() of a request that carries no session (NULL)
NoSession == "anon"

\* USING (auth.uid() = user_id): a comparison with NULL is not true
ViewPolicy(uid, row) == uid # NoSession /\ uid = row.user_id

\* .from("time_entries").select("*").order("created_at", { ascending: false })
\* under row level security
SelectVisible(rows, uid) == Reverse(SelectSeq(rows, LAMBDA r : ViewPolicy(uid, r)))

MaxPublicRows == 2
Owners == {UserId, OtherUserId}
PublicRows(n, f) == [i \in 1..n |-> Row(i, f[i][1], f[i][2], f[i][3], colors[1])]

InitPublic ==
  /\ ClientConstructed
  /\ \E n \in 0..MaxPublicRows :
       \E f \in [1..n -> Owners \X AggCategories \X (0..AggMaxSec)] :
         db = PublicRows(n, f) /\ nextId = n + 1
  /\ phase = "request"
  /\ allEntries = <<>>
  /\ entries = <<>>

\* the server component of the public page, requested without a session:
\* entries={allTimeEntries ?? []}
Home ==
  /\ phase = "request"
  /\ phase' = "served"
  /\ allEntries' = SelectVisible(db, NoSession)
  /\ UNCHANGED <<entries, slices, shown, pointer, hoverSlice, timerVars, storeVars, lastAlert>>

\* the first commit of the read-only view: setAggregatedEntries, then the
\* effect on [aggregatedEntries]
TimeTrackerReadOnly ==
  /\ phase = "served"
  /\ phase' = "public"
  /\ ShowEntries(allEntries)
  /\ UNCHANGED <<pointer, hoverSlice, timerVars, storeVars, lastAlert>>

NextPublic == Home \/ TimeTrackerReadOnly

SpecPublic == InitPublic /\ [][NextPublic]_vars

(***************************************************************************)
(* Properties of the hit tester and of the renderer's placeholder path.    *)
(***************************************************************************)
\* the angle at which the canvas paints the direction of pointer p
CanvasAngle(p) == Atan2(p[2] - CenterY, p[1] - CenterX)

\* angle, taken modulo 2 * pi, lies in the wedge painted for slice
InWedge(angle, slice) ==
  \E a \in {angle, FAdd(angle, TwoPI), FAdd(angle, FNeg(TwoPI))} :
    FGe(a, slice.startAngle) /\ FLe(a, slice.endAngle)

StrictlyInside(p) ==
  (p[1] - CenterX) * (p[1] - CenterX) + (p[2] - CenterY) * (p[2] - CenterY)
    < Radius * Radius

Hit(p) == getSliceAtPosition(slices, p[1], p[2])

\* C1: for a layout with positive total, the slice the hit tester returned
\* for the pointer is the slice whose painted wedge [startAngle, endAngle]
\* holds the pointer's canvas angle atan2(dy, dx) modulo 2 * pi.
C1_HitIsEnclosingSlice ==
  (phase = "rendered" /\ SumSeconds(entries) > 0 /\ hoverSlice # 0)
    => InWedge(CanvasAngle(pointer), slices[hoverSlice])

\* C2: for a layout with positive total (a single category included), every
\* point strictly inside the pie radius hits a slice and every point farther
\* from the centre than the radius hits none.
C2_InsideHitsOutsideMisses ==
  (phase = "rendered" /\ SumSeconds(entries) > 0)
    => \A p \in Pointers :
         /\ StrictlyInside(p) => Hit(p) # 0
         /\ OutsidePie(p[1] - CenterX, p[2] - CenterY) => Hit(p) = 0

\* C3: whenever the aggregated category list is empty, at the start as well
\* as after the last entry of a chart was deleted, the canvas shows the
\* placeholder and the hit tester returns none for every pointer position.
C3_EmptyShowsPlaceholderAndNoHit ==
  (phase = "mounted" /\ entries = <<>>)
    => /\ shown = "placeholder"
       /\ \A p \in Pointers : Hit(p) = 0

\* C4: when the aggregation is non-empty with total seconds 0, the renderer
\* shows the placeholder and produces no slice whose angle or percentage is
\* undefined.
C4_ZeroTotalShowsPlaceholder ==
  (phase = "mounted" /\ entries # <<>> /\ SumSeconds(entries) = 0)
    => /\ shown = "placeholder"
       /\ \A i \in 1..Len(slices) :
            /\ ~IsNaN(slices[i].startAngle)
            /\ ~IsNaN(slices[i].endAngle)
            /\ slices[i].percentage # "NaN"

(***************************************************************************)
(* Properties of aggregateEntries.                                         *)
(***************************************************************************)
\* the seconds of the entries of list whose lowercased category is name
RECURSIVE SecondsOf(_, _)
SecondsOf(list, name) ==
  IF list = <<>> THEN 0
  ELSE (IF toLowerCase(Head(list).category) = name THEN Head(list).seconds ELSE 0)
       + SecondsOf(Tail(list), name)

\* the position in list of the first entry whose lowercased category is name
FirstOccurrence(list, name) ==
  CHOOSE k \in 1..Len(list) :
    /\ toLowerCase(list[k].category) = name
    /\ \A j \in 1..(k - 1) : toLowerCase(list[j].category) # name

\* C5: the aggregation has one element per distinct lowercased category:
\* names are lowercase and pairwise distinct, they are exactly the lowercased
\* categories of the input, and each element's seconds is the sum over the
\* entries whose lowercased category is its name.
C5_OneBucketPerLoweredCategory ==
  phase = "aggregated" =>
    /\ \A i \in 1..Len(entries) : entries[i].name = toLowerCase(entries[i].name)
    /\ \A i, j \in 1..Len(entries) : i # j => entries[i].name # entries[j].name
    /\ {entries[i].name : i \in 1..Len(entries)}
         = {toLowerCase(allEntries[k].category) : k \in 1..Len(allEntries)}
    /\ \A i \in 1..Len(entries) :
         entries[i].seconds = SecondsOf(allEntries, entries[i].name)

\* two entries whose categories differ only in letter case were merged
C5_Witness ==
  /\ phase = "aggregated"
  /\ Len(entries) = 2
  /\ \E j, k \in 1..Len(allEntries) :
       /\ allEntries[j].category = <<"C", "o", "d", "e">>
       /\ allEntries[k].category = <<"c", "o", "d", "e">>
       /\ allEntries[j].seconds > 0 /\ allEntries[k].seconds > 0
       /\ \E i \in 1..Len(entries) :
            /\ entries[i].name = <<"c", "o", "d", "e">>
            /\ entries[i].seconds = allEntries[j].seconds + allEntries[k].seconds

\* C6: the seconds of the aggregation sum to the seconds of the input, for
\* the empty list and for lists with zero-second entries too.
C6_TotalPreserved ==
  phase = "aggregated" => SumSeconds(entries) = SumSeconds(allEntries)

\* a list with a zero-second entry and a merged category was aggregated
C6_Witness ==
  /\ phase = "aggregated"
  /\ 0 < Len(entries) /\ Len(entries) < Len(allEntries)
  /\ \E k \in 1..Len(allEntries) : allEntries[k].seconds = 0
  /\ SumSeconds(allEntries) > AggMaxSec

\* C7: the aggregation is ordered by the first occurrence of each lowercased
\* category in the input: a precedes b in the output iff a's first entry
\* precedes b's first entry.
C7_FirstOccurrenceOrder ==
  phase = "aggregated" =>
    \A i, j \in 1..Len(entries) :
      i < j <=> FirstOccurrence(allEntries, entries[i].name)
                  < FirstOccurrence(allEntries, entries[j].name)

\* the first category came back later in the input, and the output order is
\* neither alphabetical nor by total
C7_Witness ==
  /\ phase = "aggregated"
  /\ Len(allEntries) = 3 /\ Len(entries) = 2
  /\ toLowerCase(allEntries[3].category) = entries[1].name
  /\ entries[1].name = <<"w", "o", "r", "k">>
  /\ entries[2].name = <<"a", "r", "t">>
  /\ entries[1].seconds < entries[2].seconds

\* C8: the i-th aggregated category (zero-based) has colour palette[i mod 12]:
\* the first 12 categories have pairwise distinct colours, the category at
\* index 12 has palette[0], and the colour tags of the entries play no part.
C8_ColourByEmissionIndex ==
  phase = "aggregated" =>
    /\ Len(colors) = 12
    /\ \A i \in 1..Len(entries) : entries[i].color = colors[((i - 1) % 12) + 1]
    /\ \A i, j \in 1..Len(entries) :
         (i < j /\ j <= 12) => entries[i].color # entries[j].color
    /\ Len(entries) > 12 => entries[13].color = colors[1]

\* thirteen categories were aggregated from entries tagged with a colour that
\* is not the one their category got
C8_Witness ==
  /\ phase = "aggregated"
  /\ Len(entries) = 13
  /\ entries[13].color = colors[1]
  /\ \A k \in 1..Len(allEntries) : allEntries[k].color = colors[12]
  /\ entries[1].color # allEntries[1].color

(***************************************************************************)
(* Properties of the layout.  Angles are doubles; "within rounding" means  *)
(* that two doubles differ by at most AngleTolerance.                      *)
(***************************************************************************)
FSub(x, y) == FAdd(x, FNeg(y))
FAbs(x) == IF x.k = "num" THEN [x EXCEPT !.neg = FALSE] ELSE x

\* 2^-48 radians
AngleTolerance == FRound(FALSE, BFromInt(1), -(6 * 8), FALSE)

Close(x, y) == FLe(FAbs(FSub(x, y)), AngleTolerance)

\* the angular width the canvas paints for a slice
Width(slice) == FSub(slice.endAngle, slice.startAngle)

\* seconds / total of a full turn
TurnShare(seconds, total) == FMul(FDivInt(seconds, total), TwoPI)

\* -pi/2 + 2*pi
ClosingAngle == FAdd(TopAngle, TwoPI)

Laid == phase = "rendered" /\ SumSeconds(entries) > 0

Contiguous ==
  /\ Len(slices) = Len(entries)
  /\ slices[1].startAngle = TopAngle
  /\ \A i \in 2..Len(slices) : slices[i].startAngle = slices[i - 1].endAngle

\* C9 as stated: for a positive total the slices are contiguous from -pi/2,
\* each is seconds/total of a turn wide, and the last one ends at -pi/2 + 2*pi
\* exactly.
C9_ClosesExactly ==
  Laid =>
    /\ Contiguous
    /\ \A i \in 1..Len(slices) :
         slices[i].endAngle
           = FAdd(slices[i].startAngle,
                  TurnShare(entries[i].seconds, SumSeconds(entries)))
    /\ slices[Len(slices)].endAngle = ClosingAngle

\* C9: for a positive total the slices are contiguous from -pi/2, each ends
\* at its start plus seconds/total of a turn (added as doubles, so a
\* zero-second category ends where it starts), each painted width is that
\* share within rounding, and the last slice ends at -pi/2 + 2*pi within
\* rounding.
C9_ClosesWithinRounding ==
  Laid =>
    /\ Contiguous
    /\ \A i \in 1..Len(slices) :
         LET share == TurnShare(entries[i].seconds, SumSeconds(entries))
         IN  /\ slices[i].endAngle = FAdd(slices[i].startAngle, share)
             /\ Close(Width(slices[i]), share)
             /\ entries[i].seconds = 0 => slices[i].endAngle = slices[i].startAngle
    /\ Close(slices[Len(slices)].endAngle, ClosingAngle)

\* three categories were laid out and the last one ends next to, not at,
\* -pi/2 + 2*pi
C9_Witness ==
  /\ Laid
  /\ Len(slices) = 3
  /\ slices[3].endAngle # ClosingAngle
  /\ Close(slices[3].endAngle, ClosingAngle)

\* 100 * seconds / total rounded to the nearest tenth, as text
RoundedPercent(seconds, total) ==
  LET tenths == (2000 * seconds + total) \div (2 * total)
  IN  ToString(tenths \div 10) \o "." \o ToString(tenths % 10)

PercentagesRounded ==
  \A i \in 1..Len(slices) :
    slices[i].percentage = RoundedPercent(entries[i].seconds, SumSeconds(entries))

ThreeEqual ==
  /\ Len(entries) = 3
  /\ entries[1].seconds = entries[2].seconds
  /\ entries[2].seconds = entries[3].seconds

IsDigits(text) ==
  \A i \in 1..Len(text) : \E d \in 1..Len(DigitChars) : text[i] = DigitChars[d]

DigitValue(c) == (CHOOSE d \in 1..Len(DigitChars) : DigitChars[d] = c) - 1

RECURSIVE ParseNumber(_)
ParseNumber(text) ==
  IF text = <<>> THEN 0
  ELSE 10 * ParseNumber(SubSeq(text, 1, Len(text) - 1)) + DigitValue(text[Len(text)])

ColonsOf(text) == {i \in 1..Len(text) : text[i] = ":"}

\* text is HH:MM:SS for the duration seconds
ReadsAsClock(text, seconds) ==
  /\ Cardinality(ColonsOf(text)) = 2
  /\ LET i == CHOOSE c \in ColonsOf(text) : \A o \in ColonsOf(text) : c <= o
         j == CHOOSE c \in ColonsOf(text) : \A o \in ColonsOf(text) : c >= o
         hh == SubSeq(text, 1, i - 1)
         mm == SubSeq(text, i + 1, j - 1)
         ss == SubSeq(text, j + 1, Len(text))
     IN  /\ IsDigits(hh) /\ IsDigits(mm) /\ IsDigits(ss)
         /\ Len(hh) >= 2 /\ Len(mm) = 2 /\ Len(ss) = 2
         /\ Len(hh) > 2 => hh[1] # "0"
         /\ ParseNumber(hh) = seconds \div 3600
         /\ ParseNumber(mm) = (seconds % 3600) \div 60
         /\ ParseNumber(ss) = seconds % 60
         /\ ParseNumber(mm) < 60 /\ ParseNumber(ss) < 60
         /\ ParseNumber(hh) * 3600 + ParseNumber(mm) * 60 + ParseNumber(ss) = seconds

\* C11: for every non-negative integer s, formatTime(s) is HH:MM:SS with
\* HH = s div 3600, MM = (s mod 3600) div 60, SS = s mod 60, each padded with
\* zeros to at least two digits, MM < 60, SS < 60 and
\* HH * 3600 + MM * 60 + SS = s; formatTime(3661) is "01:01:01".
C11_FormatTimeIsClock ==
  phase = "formatted" =>
    /\ ReadsAsClock(clockText, elapsedSeconds)
    /\ elapsedSeconds = 3661
         => clockText = <<"0", "1", ":", "0", "1", ":", "0", "1">>

\* 3661 seconds were formatted
C11_Witness ==
  /\ phase = "formatted"
  /\ elapsedSeconds = 3661
  /\ clockText = <<"0", "1", ":", "0", "1", ":", "0", "1">>

(***************************************************************************)
(* Properties of the timer and storage handlers.                           *)
(***************************************************************************)
NamePrompt == "Please enter a task name!"

\* everything but the alert stays as it is
OnlyAlerts ==
  UNCHANGED <<db, nextId, phase, allEntries, entries, slices, shown, pointer, hoverSlice,
              category, isRunning, elapsedSeconds, clockText, intervalRef, liveIntervals, runHalf, pending>>

StartRejected ==
  /\ (StartTimer /\ trim(category) = <<>>) => (lastAlert' = NamePrompt /\ OnlyAlerts)
  /\ lastAlert' = NamePrompt => (trim(category) = <<>> /\ ~isRunning /\ OnlyAlerts)
  /\ (trim(category) = <<>> /\ ~isRunning) => (~isRunning' /\ ~intervalRef')

\* C12: a start whose category is empty or only whitespace after trimming
\* raises the prompt and changes nothing: the timer stays idle, no interval
\* is started, and elapsed seconds, category text and entry list are as
\* before.
C12_BlankStartRejected == [][StartRejected]_vars

\* a start with a whitespace-only category was answered with the prompt
C12_Witness ==
  /\ lastAlert = NamePrompt
  /\ category # <<>> /\ trim(category) = <<>>
  /\ ~isRunning /\ ~intervalRef /\ elapsedSeconds = 0

RowIds(rows) == {rows[k].id : k \in 1..Len(rows)}

\* the step in which stop is invoked: the interval is gone and one insert is
\* issued that carries the trimmed category and the displayed seconds
StopIssuesInsert ==
  (isRunning /\ ~isRunning') =>
    /\ ~intervalRef'
    /\ db' = db
    /\ Len(pending') = Len(pending) + 1
    /\ SubSeq(pending', 1, Len(pending)) = pending
    /\ LET call == pending'[Len(pending')]
       IN  /\ call.stage = "insert"
           /\ call.category = trim(category)
           /\ call.seconds = elapsedSeconds
           /\ clockText = formatTime(call.seconds)

\* the step in which storage grows: one row, that of an issued insert
InsertAddsOneRow ==
  Len(db') > Len(db) =>
    /\ Len(db') = Len(db) + 1
    /\ SubSeq(db', 1, Len(db)) = db
    /\ LET row == db'[Len(db')]
       IN  /\ row.user_id = UserId
           /\ row.id \notin RowIds(db)
           /\ \E i \in 1..Len(pending) :
                /\ pending[i].stage = "insert"
                /\ row.category = pending[i].category
                /\ row.seconds = pending[i].seconds

\* C13: a stop cancels the interval and issues one insert with the trimmed
\* category text and the elapsed seconds displayed when stop was invoked;
\* when the insert succeeds storage gains exactly one row, owned by the
\* current user, with that category and those seconds.
C13_StopInsertsOneEntry == [][StopIssuesInsert /\ InsertAddsOneRow]_vars

\* a session typed as "A " that ran one second was stopped and stored
C13_Witness ==
  /\ Len(db) = 1
  /\ db[1].category = <<"A">> /\ db[1].seconds = 1 /\ db[1].user_id = UserId
  /\ category = <<"A", " ">>
  /\ ~isRunning /\ ~intervalRef
  /\ \E i \in 1..Len(pending) : pending[i].op = "stop" /\ pending[i].stage = "select"

SaveAlert == "Failed to save time entry"
DeleteAlert == "Failed to delete time entry"

\* the call at position i leaves the calls in flight and nothing follows it
Dropped(i) == pending' = Without(pending, i)

\* an issued insert or delete ends with storage as it was
FailureOf(i) ==
  /\ pending[i].stage \in {"insert", "delete"}
  /\ Dropped(i)
  /\ db' = db

FailureLeavesLists ==
  /\ \A i \in 1..Len(pending) :
       FailureOf(i) =>
         /\ lastAlert' = (IF pending[i].stage = "insert" THEN SaveAlert ELSE DeleteAlert)
         /\ UNCHANGED <<allEntries, entries, slices, shown, nextId>>
  /\ lastAlert' \in {SaveAlert, DeleteAlert} =>
       /\ \E i \in 1..Len(pending) :
            /\ FailureOf(i)
            /\ pending[i].stage = (IF lastAlert' = SaveAlert THEN "insert" ELSE "delete")
       /\ UNCHANGED <<allEntries, entries, slices, shown, nextId>>

\* C14: when the insert of a stop or the delete of a deleteEntry fails, an
\* alert is raised, the call leaves the calls in flight with no retry and no
\* refetch after it, and the entry list and the aggregated categories stay
\* as they were.
C14_FailureAlertsAndKeepsLists == [][FailureLeavesLists]_vars

\* the delete of a shown entry failed
C14_Witness ==
  /\ lastAlert = DeleteAlert
  /\ pending = <<>>
  /\ Len(db) = 1 /\ Len(allEntries) = 1 /\ Len(entries) = 1
  /\ allEntries[1].id = db[1].id

\* C15: when the insert of a stop fails, the timer is as it was right before
\* stop was invoked: running, with its interval alive, and with the elapsed
\* seconds and the category text of the session.
C15_FailedStopLeavesTimer ==
  [][lastAlert' = SaveAlert =>
       /\ isRunning' /\ intervalRef'
       /\ \E i \in 1..Len(pending) :
            /\ FailureOf(i)
            /\ elapsedSeconds' = pending[i].seconds
            /\ trim(category') = pending[i].category]_vars

\* a refetch ends without delivering the owner's stored rows to the list
RefetchFailureOf(i) ==
  /\ pending[i].stage = "select"
  /\ Dropped(i)
  /\ allEntries' # SelectOwn(db, UserId)

\* C16: a failure of the select that follows a successful insert or delete
\* raises an alert, as insert and delete failures do.
C16_RefetchFailureAlerts ==
  [][(\E i \in 1..Len(pending) : RefetchFailureOf(i)) => lastAlert' # ""]_vars

\* no storage call is in flight
Settled == phase = "mounted" /\ pending = <<>>

\* C17: when every storage action has completed and none returned an error,
\* the displayed list is the list of the owner's stored entries, whatever
\* the order in which the responses of concurrent actions arrived.
C17_SettledListIsStored ==
  Settled => allEntries = SelectOwn(db, UserId)

\* C18: a visitor without a session is shown the stored entries: the select
\* of the public page returns every stored row, newest first, and the
\* read-only view displays their totals per category.
C18_PublicShowsStored ==
  phase = "public" =>
    /\ allEntries = Reverse(db)
    /\ entries = aggregateEntries(Reverse(db))

ShownAreOwn == \A k \in 1..Len(allEntries) : allEntries[k].user_id = UserId

InsertedAreOwn ==
  \A k \in 1..Len(db') : db'[k].id \notin RowIds(db) => db'[k].user_id = UserId

OthersKept ==
  \A k \in 1..Len(db) :
    db[k].user_id # UserId => \E j \in 1..Len(db') : db'[j] = db[k]

\* C19: the list shown to the session's user holds only rows of that user,
\* every row a step adds to storage carries the session's user id, and no
\* step removes a row of another user.
C19_OwnerIsolation ==
  []ShownAreOwn /\ [][InsertedAreOwn /\ OthersKept]_vars

\* storage holds a row of another user while the session's user has stored
\* one entry and deleted another, and sees the list that results
C19_Witness ==
  /\ pending = <<>>
  /\ \E k \in 1..Len(db) : db[k].user_id = OtherUserId
  /\ 1 \notin RowIds(db)
  /\ Len(allEntries) = 1 /\ allEntries[1].id = FirstFreeId

\* the timer is Running when the flag is set and the poll is alive, and Idle
\* when neither is
TwoStates == isRunning <=> intervalRef

StartStep == ~isRunning /\ isRunning'

StopStep == isRunning /\ ~isRunning'

\* a step in which a stop sends its entry to storage
IssuesInsert ==
  /\ Len(pending') = Len(pending) + 1
  /\ pending'[Len(pending')].op = "stop"

\* a step in which storage takes the entry of one stop that was waiting
PersistsOneStop ==
  \E i \in 1..Len(pending) :
    /\ pending[i].op = "stop" /\ pending[i].stage = "insert"
    /\ pending' = [pending EXCEPT ![i].stage = "select"]

\* C20: the timer is either Idle or Running; a start happens only from Idle
\* and begins a session with zero elapsed seconds; a stop happens only from
\* Running, ends the session and sends one entry; while a session runs it
\* is not started again; and every entry that is persisted is the entry of
\* one stop, so of one session that was started and then stopped.
C20_TimerAlternates ==
  /\ []TwoStates
  /\ [][/\ StartStep => (elapsedSeconds' = 0 /\ runHalf' = 0 /\ pending' = pending)
        /\ StopStep <=> IssuesInsert
        /\ (isRunning /\ isRunning') => runHalf' >= runHalf
        /\ Len(db') > Len(db) => PersistsOneStop]_vars

\* a second session runs after the entry of the first one was persisted
C20_Witness ==
  /\ isRunning /\ intervalRef
  /\ issued = 1
  /\ \E k \in 1..Len(db) : db[k].id >= FirstFreeId

\* the rows a step adds to storage
AddedRows == {db'[k] : k \in {j \in 1..Len(db') : db'[j].id \notin RowIds(db)}}

\* C21: every entry persisted by stop has a category that is not empty and
\* is the trimmed text its session was started with: a session starts with
\* a text that is not blank, the text stays as it is while the session
\* runs (also while an earlier stop is still in flight), the stop sends the
\* trim of that text, and storage keeps what was sent.
C21_PersistedCategoryIsSessionText ==
  [][/\ StartStep => trim(category') # <<>>
     /\ (isRunning /\ isRunning') => category' = category
     /\ IssuesInsert =>
          /\ pending'[Len(pending')].category = trim(category)
          /\ pending'[Len(pending')].category # <<>>
     /\ \A row \in AddedRows :
          /\ row.category # <<>>
          /\ \E i \in 1..Len(pending) :
               pending[i].stage = "insert" /\ row.category = pending[i].category]_vars

\* the timer of a mounted component is running
Running == isRunning /\ phase = "mounted"

\* C22: at most one polling interval is alive, and one is alive exactly while
\* the timer is Running; a step creates an interval only when none is alive;
\* and outside Running (after stop, after teardown) the elapsed seconds are
\* not updated by a poll: they stay or are reset to 0.
C22_OnePollWhileRunning ==
  /\ [](liveIntervals <= 1 /\ (liveIntervals = 1 <=> Running))
  /\ [][/\ liveIntervals' > liveIntervals => liveIntervals = 0
        /\ ~Running => elapsedSeconds' \in {elapsedSeconds, 0}]_vars

\* the component was taken off the page while its timer ran and had
\* counted a second: the interval it held is cleared
C22_Witness ==
  /\ phase = "unmounted"
  /\ isRunning /\ intervalRef /\ elapsedSeconds = 1
  /\ liveIntervals = 0

\* C23: in every state after mount the aggregated categories that drive the
\* chart are aggregateEntries of the displayed entry list.
C23_ChartFollowsList ==
  phase = "mounted" => entries = aggregateEntries(allEntries)

\* the angle getSliceAtPosition compares with the slices for pointer p
TestedAngle(p) ==
  LET turned == FAdd(CanvasAngle(p), FHalf(MathPI))
  IN  IF FLt(turned, FZero) THEN FAdd(turned, TwoPI) ELSE turned

\* the slices whose match condition the angle satisfies
Matching(list, angle) == {i \in 1..Len(list) : SliceMatches(list[i], angle)}

\* C24: for a layout with positive total and a pointer inside the radius
\* that hit a slice, no second slice satisfies the match condition for the
\* pointer's angle.
C24_AtMostOneMatch ==
  (phase = "rendered" /\ SumSeconds(entries) > 0 /\ hoverSlice # 0)
    => Cardinality(Matching(slices, TestedAngle(pointer))) <= 1

\* if (start < 0) start += 2 * Math.PI, and the same for end
Normalized(a) == IF FLt(a, FZero) THEN FAdd(a, TwoPI) ELSE a

\* the normalized end of the slice is smaller than its normalized start
Wraps(slice) == FLt(Normalized(slice.endAngle), Normalized(slice.startAngle))

\* angle lies in [start, 2 * pi) or in [0, end]
InWrappedRange(slice, angle) ==
  FGe(angle, Normalized(slice.startAngle)) \/ FLe(angle, Normalized(slice.endAngle))

\* C25: when the pointer moves to a place inside the radius, a slice whose
\* normalized end is smaller than its normalized start, and before which no
\* slice was hit, is hit exactly when the tested angle is at least its
\* start or at most its end.
C25_WrapBranchIsUnion ==
  [][(pointer' # pointer /\ ~OutsidePie(pointer'[1] - CenterX, pointer'[2] - CenterY))
       => \A i \in 1..Len(slices') :
            (Wraps(slices'[i]) /\ (hoverSlice' = 0 \/ hoverSlice' >= i))
              => (hoverSlice' = i <=> InWrappedRange(slices'[i], TestedAngle(pointer')))]_vars

\* Math.floor((currentTime - now) / 1000) at the time of the state
PollValue == (runHalf * ClockStepMs) \div MsPerSecond

\* C26: the seconds a stop persists are the value of the most recent poll of
\* its session, or 0 if none fired: a session starts with 0, while it runs
\* the elapsed seconds change only to the value a poll computes at that
\* time, the stop sends the elapsed seconds, which are not negative and not
\* more than the whole seconds since the start, and storage keeps what was
\* sent.
C26_PersistedSecondsAreLastPoll ==
  [][/\ StartStep => elapsedSeconds' = 0
     /\ (isRunning /\ isRunning') =>
          (elapsedSeconds' = elapsedSeconds \/ elapsedSeconds' = PollValue')
     /\ IssuesInsert =>
          /\ pending'[Len(pending')].seconds = elapsedSeconds
          /\ elapsedSeconds >= 0 /\ elapsedSeconds <= PollValue
     /\ \A row \in AddedRows :
          \E i \in 1..Len(pending) :
            pending[i].stage = "insert" /\ row.seconds = pending[i].seconds]_vars

\* storage gains one row: the entry of a stop that was waiting, under a new id
StopAddsOne ==
  /\ Len(db') = Len(db) + 1
  /\ db' = Append(db, db'[Len(db')])
  /\ db'[Len(db')].id \notin RowIds(db)
  /\ \E i \in 1..Len(pending) :
       /\ pending[i].op = "stop" /\ pending[i].stage = "insert"
       /\ db'[Len(db')].category = pending[i].category
       /\ db'[Len(db')].seconds = pending[i].seconds
       /\ db'[Len(db')].user_id = UserId

\* storage loses the row with the id of a waiting delete, if the session's
\* user owns it, and nothing else
DeleteRemovesOne ==
  \E i \in 1..Len(pending) :
    /\ pending[i].op = "delete" /\ pending[i].stage = "delete"
    /\ db' = SelectSeq(db, LAMBDA r : r.id # pending[i].id \/ r.user_id # UserId)

\* C27: every step leaves the stored entries as they are, or adds the one
\* entry of a stop, or removes the one entry a delete names; rows that stay
\* keep their category, seconds and owner. A step that starts the timer,
\* polls, renders or moves the pointer leaves storage as it is.
C27_StorageChangesOnlyByStopAndDelete ==
  [][/\ db' = db \/ StopAddsOne \/ DeleteRemovesOne
     /\ db' # db => UNCHANGED <<timerVars, chartVars, pointer, hoverSlice>>]_vars

\* the session's user deleted the stored entry and added a new one; the row
\* of the other user is as it was
C27_Witness ==
  /\ Len(db) = 2
  /\ db[1] = SeedRows[2]
  /\ db[2].user_id = UserId /\ db[2].id = FirstFreeId

\* the answer of a stop's select reaches the mounted client
StopDelivered(i) ==
  /\ phase = "mounted"
  /\ pending[i].op = "stop" /\ pending[i].stage = "response"
  /\ pending' = Without(pending, i)

\* storage answers the select of a stop
StopAnswered(i) ==
  /\ pending[i].op = "stop" /\ pending[i].stage = "select"
  /\ Len(pending') = Len(pending) /\ pending'[i].stage = "response"

\* rows holds an entry added since the page was opened with what call sent
HoldsEntryOf(rows, call) ==
  \E k \in 1..Len(rows) :
    /\ rows[k].id >= FirstFreeId /\ rows[k].user_id = UserId
    /\ rows[k].category = call.category /\ rows[k].seconds = call.seconds

Refreshed(i) ==
  /\ allEntries' = pending[i].rows
  /\ entries' = aggregateEntries(allEntries')
  /\ category' = <<>> /\ elapsedSeconds' = 0

\* C28 as stated: when the refetch of a stop is delivered, the displayed
\* list becomes the refetched list, which holds the new entry, the
\* aggregation is recomputed from it, and the category text and the elapsed
\* seconds are reset.
C28_StopRefetchShowsNewEntry ==
  [][\A i \in 1..Len(pending) :
       StopDelivered(i) => (Refreshed(i) /\ HoldsEntryOf(allEntries', pending[i]))]_vars

\* C28 amended: the refetched list is the list of the owner's stored
\* entries at the time storage answers, so it holds the new entry exactly
\* if that entry is still stored then; when it is delivered the displayed
\* list becomes that list, the aggregation is recomputed from it, and the
\* category text and the elapsed seconds are reset.
C28_StopRefetchShowsStoredRows ==
  [][/\ \A i \in 1..Len(pending) : StopDelivered(i) => Refreshed(i)
     /\ \A i \in 1..Len(pending) :
          StopAnswered(i) =>
            /\ pending'[i].rows = SelectOwn(db, UserId)
            /\ HoldsEntryOf(pending'[i].rows, pending[i]) <=> HoldsEntryOf(db, pending[i])]_vars

\* the refetch of the stop was delivered: the list shows the new entry
\* first and the form is reset
C28_Witness ==
  /\ pending = <<>>
  /\ category = <<>> /\ elapsedSeconds = 0
  /\ Len(allEntries) = 2
  /\ allEntries[1].id = FirstFreeId /\ allEntries[1].category = <<"A">>
  /\ entries = aggregateEntries(allEntries)

\* C29: for every entry list the read-only view's aggregateEntries returns
\* the sequence of (name, seconds, colour) that the interactive view's
\* aggregateEntries returns.
C29_ReadOnlyAggregatesAlike ==
  phase = "aggregated" => entries = aggregateEntries(allEntries)

\* the read-only view aggregated a list in which a category repeats in
\* another case and one category has zero seconds
C29_Witness ==
  /\ phase = "aggregated"
  /\ Len(allEntries) = 3 /\ Len(entries) = 2
  /\ allEntries[1].category # allEntries[3].category
  /\ toLowerCase(allEntries[1].category) = toLowerCase(allEntries[3].category)
  /\ entries[2].seconds = 0
====
